---- MODULE Spec2Model ----
(***************************************************************************)
(* Model of src/platform/windows/angle/context.rs: the EGL/ANGLE context  *)
(* lifecycle of surfman (creation under CREATE_CONTEXT_MUTEX, activation, *)
(* colour surface replacement, destruction, drop).                        *)
(*                                                                         *)
(* The native EGL calls are the environment: each call the code issues is  *)
(* modelled by its EGL effect, and its success or failure is an input.     *)
(***************************************************************************)
EXTENDS Integers, Sequences, FiniteSets, TLC

(* ---------------------------- bounds ---------------------------------- *)
NumThreads == 2
MaxContexts == 2
MaxSurfaces == 2
MaxNative == 2

Threads == 1..NumThreads
CtxIds == 1..MaxContexts
SurfIds == 1..MaxSurfaces
Handles == 1..MaxNative

(* ------------------------ program constants --------------------------- *)
NO_CONTEXT == 0
NO_SURFACE == 0
ColorSize == 8
AlphaSize == 8
DepthSize == 24
StencilSize == 8

AttributeFlags == {"ALPHA", "DEPTH", "STENCIL"}
GLApis == {"GL", "GLES"}
NativeErrors == {"BAD_ALLOC", "BAD_MATCH"}
Builds == {"debug", "release"}

VARIABLES
    mutex,                      \* CREATE_CONTEXT_MUTEX: 0 when free, else the holding thread
    poisoned,                   \* the mutex was held by a thread that panicked
    previous_context_created,   \* the bool inside CREATE_CONTEXT_MUTEX
    loadCount,                  \* number of gl::load_with calls performed in the process
    pc,                         \* each thread's position inside a creation call
    local,                      \* each thread's locals of the creation call in progress
    contexts,                   \* the Context objects handed to the caller
    native,                     \* the EGL contexts of the display
    current,                    \* EGL's per-thread current context and draw/read surfaces
    surfaces,                   \* where each Surface object is
    returned,                   \* per surface: times a replacement returned it since it was last bound
    lastOp                      \* the call that returned last, with what it returned and did

vars == <<mutex, poisoned, previous_context_created, loadCount, pc, local, contexts,
          native, current, surfaces, returned, lastOp>>

(* ---------------------------- data ------------------------------------ *)
NoColorSurface == [kind |-> "None", surface |-> NO_SURFACE]
ExternalColorSurface == [kind |-> "External", surface |-> NO_SURFACE]
ManagedColorSurface(s) == [kind |-> "Managed", surface |-> s]

NoContext == [state |-> "none", variant |-> "none", egl_context |-> NO_CONTEXT,
              color_surface |-> NoColorSurface, gl_info |-> {}]
NoNative == [alive |-> FALSE, origin |-> "none", config |-> {}]
NoCurrent == [ctx |-> NO_CONTEXT, draw |-> NO_SURFACE, read |-> NO_SURFACE]
NoLocal == [flags |-> {}, config_attributes |-> <<>>, egl_context |-> NO_CONTEXT,
            calls |-> <<>>, loaded |-> FALSE]

\* The record of a call that has returned: what it was, what it returned, the
\* native calls it issued in order, and the context as it was before the call.
Op(op, t, c, res, err, ret, calls, pre, loc) ==
    [op |-> op, t |-> t, c |-> c, res |-> res, err |-> err, ret |-> ret,
     calls |-> calls, pre |-> pre, flags |-> loc.flags,
     config_attributes |-> loc.config_attributes, egl_context |-> loc.egl_context,
     loaded |-> loc.loaded]
NoOp == Op("none", 0, 0, "none", "none", 0, <<>>, NoContext, NoLocal)

Init ==
    /\ mutex = 0
    /\ poisoned = FALSE
    /\ previous_context_created = FALSE
    /\ loadCount = 0
    /\ pc = [t \in Threads |-> "idle"]
    /\ local = [t \in Threads |-> NoLocal]
    /\ contexts = [c \in CtxIds |-> NoContext]
    /\ native = [h \in Handles |-> NoNative]
    /\ current = [t \in Threads |-> NoCurrent]
    /\ surfaces = [s \in SurfIds |-> "caller"]
    /\ returned = [s \in SurfIds |-> 0]
    /\ lastOp = NoOp

(* ------------------------- helpers ------------------------------------ *)
UsedContexts == {c \in CtxIds : contexts[c].state # "none"}
UsedHandles == {h \in Handles : native[h].origin # "none"}
Creating == {t \in Threads : pc[t] # "idle"}
Min(S) == CHOOSE x \in S : \A y \in S : x <= y
Range(q) == {q[i] : i \in DOMAIN q}
NewContextId == Min(CtxIds \ UsedContexts)
NewHandle == Min(Handles \ UsedHandles)

\* Context::native_context.is_destroyed(), same body for both variants.
is_destroyed(ctx) == ctx.egl_context = NO_CONTEXT

\* The native configurations of the display, by their channel sizes.
Configs == [alpha : {0, AlphaSize}, depth : {0, DepthSize}, stencil : {0, StencilSize}]

FullConfig == [alpha |-> AlphaSize, depth |-> DepthSize, stencil |-> StencilSize]
BareConfig == [alpha |-> 0, depth |-> 0, stencil |-> 0]

\* create_context: the channel sizes requested for a set of attribute flags.
alpha_size(flags) == IF "ALPHA" \in flags THEN AlphaSize ELSE 0
depth_size_16(flags) == IF "DEPTH" \in flags THEN 16 ELSE 0
depth_size(flags) == IF "DEPTH" \in flags THEN DepthSize ELSE 0
stencil_size(flags) == IF "STENCIL" \in flags THEN StencilSize ELSE 0
config_attributes(flags) ==
    [red |-> ColorSize, green |-> ColorSize, blue |-> ColorSize,
     alpha |-> alpha_size(flags), depth |-> depth_size(flags),
     stencil |-> stencil_size(flags)]

\* egl::ChooseConfig matches the sizes as lower bounds.
ConfigMatches(cfg, attrs) ==
    /\ cfg.alpha >= attrs.alpha
    /\ cfg.depth >= attrs.depth
    /\ cfg.stencil >= attrs.stencil

\* from_current_context: the attribute flags read back from a configuration.
attribute_flags(cfg) ==
    {f \in AttributeFlags :
        \/ f = "ALPHA" /\ cfg.alpha # 0
        \/ f = "DEPTH" /\ cfg.depth # 0
        \/ f = "STENCIL" /\ cfg.stencil # 0}

\* GLInfo::new(&attributes): the info keeps the attribute flags it was built from.
GLInfoNew(flags) == flags

\* egl::MakeCurrent(display, draw, read, ctx) on thread t. EGL binds the
\* context and both surfaces to the calling thread alone; a failed call
\* leaves the thread's binding as it was.
MakeCurrentValid(draw, ctx) ==
    \/ ctx # NO_CONTEXT /\ native[ctx].alive
    \/ ctx = NO_CONTEXT /\ draw = NO_SURFACE
MakeCurrentProcessWide(t, draw, read, ctx, ok) ==
    IF ok THEN [u \in Threads |-> [ctx |-> ctx, draw |-> draw, read |-> read]]
    ELSE current
MakeCurrent(t, draw, read, ctx, ok) ==
    IF ok THEN [current EXCEPT ![t] = [ctx |-> ctx, draw |-> draw, read |-> read]]
    ELSE current

\* Leaving a creation call: the MutexGuard is dropped, the call's record is kept.
\* A panic while the guard is held poisons the mutex.
LeaveHoldingMutex(t, op, c, res, err, loc) ==
    /\ pc' = [pc EXCEPT ![t] = "idle"]
    /\ local' = [local EXCEPT ![t] = NoLocal]
    /\ mutex' = mutex
    /\ poisoned' = (poisoned \/ (res = "panic" /\ mutex = t))
    /\ lastOp' = Op(op, t, c, res, err, 0, loc.calls, NoContext, loc)
Leave(t, op, c, res, err, loc) ==
    /\ pc' = [pc EXCEPT ![t] = "idle"]
    /\ local' = [local EXCEPT ![t] = NoLocal]
    /\ mutex' = IF mutex = t THEN 0 ELSE mutex
    /\ poisoned' = (poisoned \/ (res = "panic" /\ mutex = t))
    /\ lastOp' = Op(op, t, c, res, err, 0, loc.calls, NoContext, loc)

(* ---------------------- Device::create_context ------------------------ *)
\* Lines 177-179: the flavor create_context rejects.
no_flavor_check(api) == FALSE
unsupported_flavor(api) == api = "GLES"

\* Lines 176-191: the flavor check, before the mutex is taken.
create_context_begin(t, api, flags) ==
    /\ pc[t] = "idle"
    /\ Cardinality(UsedContexts) + Cardinality(Creating) < MaxContexts
    /\ Cardinality(UsedHandles) + Cardinality(Creating) < MaxNative
    /\ IF unsupported_flavor(api)
       THEN /\ lastOp' = Op("create_context", t, 0, "UnsupportedGLType", "none", 0,
                            <<>>, NoContext, [NoLocal EXCEPT !.flags = flags])
            /\ UNCHANGED <<pc, local>>
       ELSE /\ pc' = [pc EXCEPT ![t] = "cc_lock"]
            /\ local' = [local EXCEPT ![t] = [NoLocal EXCEPT !.flags = flags]]
            /\ UNCHANGED lastOp
    /\ UNCHANGED <<mutex, poisoned, previous_context_created, loadCount, contexts,
                   native, current, surfaces, returned>>

\* Lines 26-28: a std::sync::Mutex is taken by one thread at a time; lock()
\* returns once no thread holds it.
lock_always_available(holder) == TRUE
lock_available(holder) == holder = 0

\* Line 181 (and line 65): CREATE_CONTEXT_MUTEX.lock().unwrap().
lock(t) ==
    /\ pc[t] \in {"cc_lock", "fcc_lock"}
    /\ lock_available(mutex)
    /\ IF poisoned
       THEN /\ Leave(t, IF pc[t] = "cc_lock" THEN "create_context"
                         ELSE "from_current_context", 0, "panic", "none", local[t])
            /\ UNCHANGED <<previous_context_created, loadCount, contexts, native,
                           current, surfaces, returned>>
       ELSE /\ mutex' = t
            /\ pc' = [pc EXCEPT ![t] = IF pc[t] = "cc_lock" THEN "cc_choose"
                                        ELSE "fcc_query"]
            /\ UNCHANGED <<poisoned, previous_context_created, loadCount, local,
                           contexts, native, current, surfaces, returned, lastOp>>

\* Lines 216-222: the error that the outcome of egl::ChooseConfig makes
\* create_context return, "none" when it goes on.
selection_failure_unless_empty(result, config_count) ==
    IF ~result THEN "PixelFormatSelectionFailed" ELSE "none"
selection_failure(result, config_count) ==
    IF ~result THEN "PixelFormatSelectionFailed"
    ELSE IF config_count = 0 THEN "NoPixelFormatFound"
    ELSE "none"

\* Lines 193-222: egl::ChooseConfig and the two checks of its result.
\* config_count is the count EGL reports through its last argument (line 215
\* names the variable itself where line 131 passes a pointer to it); EGL
\* writes a configuration exactly when it reports a count above 0, so a null
\* `config` and a count of 0 are the same outcome.
choose_config(t, result, config_count, err) ==
    /\ pc[t] = "cc_choose"
    /\ LET loc == [local[t] EXCEPT
                     !.config_attributes = config_attributes(local[t].flags),
                     !.calls = Append(@, "ChooseConfig")]
           failure == selection_failure(result, config_count)
       IN IF failure # "none"
          THEN /\ Leave(t, "create_context", 0, failure,
                        IF ~result THEN err ELSE "none", loc)
          ELSE /\ pc' = [pc EXCEPT ![t] = "cc_create"]
               /\ local' = [local EXCEPT ![t] = loc]
               /\ UNCHANGED <<mutex, poisoned, lastOp>>
    /\ UNCHANGED <<previous_context_created, loadCount, contexts, native, current,
                   surfaces, returned>>

\* Lines 224-239: egl::CreateContext.
create_native_context(t, ok, cfg, err) ==
    /\ pc[t] = "cc_create"
    /\ ConfigMatches(cfg, local[t].config_attributes)
    /\ LET loc == [local[t] EXCEPT !.calls = Append(@, "CreateContext")]
       IN IF ~ok
          THEN /\ Leave(t, "create_context", 0, "ContextCreationFailed", err, loc)
               /\ UNCHANGED native
          ELSE /\ native' = [native EXCEPT ![NewHandle] =
                                [alive |-> TRUE, origin |-> "create_context",
                                 config |-> cfg]]
               /\ pc' = [pc EXCEPT ![t] = "cc_make_current"]
               /\ local' = [local EXCEPT ![t] = [loc EXCEPT !.egl_context = NewHandle]]
               /\ UNCHANGED <<mutex, poisoned, lastOp>>
    /\ UNCHANGED <<previous_context_created, loadCount, contexts, current, surfaces,
                   returned>>

\* What create_context does with the native context it created when the
\* provisional activation fails: nothing (the OwnedEGLContext local has no
\* Drop), so the EGL context stays as it is.
release_on_failure(nat, h) == nat

\* Lines 241-250: the provisional egl::MakeCurrent against no surface.
provisional_make_current(t, ok, err) ==
    /\ pc[t] = "cc_make_current"
    /\ ok => MakeCurrentValid(NO_SURFACE, local[t].egl_context)
    /\ LET loc == [local[t] EXCEPT !.calls = Append(@, "MakeCurrent")]
       IN IF ~ok
          THEN /\ Leave(t, "create_context", 0, "MakeCurrentFailed", err, loc)
               /\ native' = release_on_failure(native, loc.egl_context)
               /\ UNCHANGED current
          ELSE /\ current' = MakeCurrent(t, NO_SURFACE, NO_SURFACE, loc.egl_context, TRUE)
               /\ pc' = [pc EXCEPT ![t] = "cc_load"]
               /\ local' = [local EXCEPT ![t] = loc]
               /\ UNCHANGED <<mutex, poisoned, lastOp, native>>
    /\ UNCHANGED <<previous_context_created, loadCount, contexts, surfaces, returned>>

\* Lines 158-163 and 258-263: the load of the GL function pointers, once.
always_load(flag) == TRUE
must_load(flag) == ~flag
load_once(t) ==
    /\ pc[t] \in {"cc_load", "fcc_load"}
    /\ IF must_load(previous_context_created)
       THEN /\ loadCount' = loadCount + 1
            /\ previous_context_created' = TRUE
            /\ local' = [local EXCEPT ![t].calls = Append(@, "load_with"),
                                      ![t].loaded = TRUE]
       ELSE UNCHANGED <<loadCount, previous_context_created, local>>
    /\ pc' = [pc EXCEPT ![t] = IF pc[t] = "cc_load" THEN "cc_return" ELSE "fcc_return"]
    /\ UNCHANGED <<mutex, poisoned, contexts, native, current, surfaces, returned,
                   lastOp>>

\* Lines 252-256 and 265-266: the Context that create_context returns.
created_context(loc) ==
    [state |-> "live", variant |-> "Owned", egl_context |-> loc.egl_context,
     color_surface |-> NoColorSurface, gl_info |-> GLInfoNew(loc.flags)]
create_context_return(t) ==
    /\ pc[t] = "cc_return"
    /\ contexts' = [contexts EXCEPT ![NewContextId] = created_context(local[t])]
    /\ Leave(t, "create_context", NewContextId, "Ok", "none", local[t])
    /\ UNCHANGED <<previous_context_created, loadCount, native, current, surfaces,
                   returned>>

(* ------------------- Device::from_current_context --------------------- *)
\* Line 64: the call is entered; its first statement takes the mutex.
from_current_context_begin(t) ==
    /\ pc[t] = "idle"
    /\ Cardinality(UsedContexts) + Cardinality(Creating) < MaxContexts
    /\ pc' = [pc EXCEPT ![t] = "fcc_lock"]
    /\ local' = [local EXCEPT ![t] = NoLocal]
    /\ UNCHANGED <<mutex, poisoned, previous_context_created, loadCount, contexts,
                   native, current, surfaces, returned, lastOp>>

\* The first assertion of lines 67-133 that fails for the thread's current
\* context, "none" when all hold. With nothing current, GetCurrentDisplay and
\* GetCurrentContext give NO_DISPLAY and NO_CONTEXT: a debug build stops at
\* debug_assert_ne (line 69), a release build at the assert on the result of
\* eglQueryDisplayAttribEXT(NO_DISPLAY) (line 79). A current context whose
\* handle has been destroyed fails egl::QueryContext (line 107).
failed_assertion_debug_only(cur, build) ==
    IF cur.ctx = NO_CONTEXT
    THEN (IF build = "debug" THEN "debug_assert_ne:69" ELSE "none")
    ELSE IF ~native[cur.ctx].alive THEN "assert_ne:107"
    ELSE "none"
failed_assertion(cur, build) ==
    IF cur.ctx = NO_CONTEXT
    THEN (IF build = "debug" THEN "debug_assert_ne:69" ELSE "assert_ne:79")
    ELSE IF ~native[cur.ctx].alive THEN "assert_ne:107"
    ELSE "none"

\* Lines 112-138: the channel sizes of the configuration of a native context;
\* get_config_attr leaves 0 in `value` when the query fails.
config_of(h) == IF h = NO_CONTEXT THEN BareConfig ELSE native[h].config

\* Lines 67-156: the queries of the current context and the Context built from them.
query_current_context(t, build) ==
    /\ pc[t] = "fcc_query"
    /\ LET failed == failed_assertion(current[t], build)
           loc == [local[t] EXCEPT !.calls = Append(@, "GetCurrentContext"),
                                   !.egl_context = current[t].ctx]
       IN IF failed # "none"
          THEN Leave(t, "from_current_context", 0, "panic", failed, loc)
          ELSE /\ local' = [local EXCEPT ![t] =
                      [loc EXCEPT !.flags = attribute_flags(config_of(loc.egl_context))]]
               /\ pc' = [pc EXCEPT ![t] = "fcc_load"]
               /\ UNCHANGED <<mutex, poisoned, lastOp>>
    /\ UNCHANGED <<previous_context_created, loadCount, contexts, native, current,
                   surfaces, returned>>

\* Lines 152-156 and 165-166: the Context that from_current_context returns.
adopted_context_unbound(loc) ==
    [state |-> "live", variant |-> "Borrowed", egl_context |-> loc.egl_context,
     color_surface |-> NoColorSurface, gl_info |-> GLInfoNew(loc.flags)]
adopted_context(loc) ==
    [state |-> "live", variant |-> "Borrowed", egl_context |-> loc.egl_context,
     color_surface |-> ExternalColorSurface, gl_info |-> GLInfoNew(loc.flags)]
from_current_context_return(t) ==
    /\ pc[t] = "fcc_return"
    /\ contexts' = [contexts EXCEPT ![NewContextId] = adopted_context(local[t])]
    /\ Leave(t, "from_current_context", NewContextId, "Ok", "none", local[t])
    /\ UNCHANGED <<previous_context_created, loadCount, native, current, surfaces,
                   returned>>

\* The host of from_current_context (Glutin, say) creates a context of its own
\* and makes it current on thread t.
host_make_current(t, cfg) ==
    /\ pc[t] = "idle"
    /\ Cardinality(UsedHandles) + Cardinality(Creating) < MaxNative
    /\ native' = [native EXCEPT ![NewHandle] =
                     [alive |-> TRUE, origin |-> "host", config |-> cfg]]
    /\ current' = MakeCurrent(t, NO_SURFACE, NO_SURFACE, NewHandle, TRUE)
    /\ lastOp' = Op("host_make_current", t, 0, "Ok", "none", 0, <<>>, NoContext, NoLocal)
    /\ UNCHANGED <<mutex, poisoned, previous_context_created, loadCount, pc, local,
                   contexts, surfaces, returned>>

(* ------------------------ the surface manager -------------------------- *)
\* Device::lookup_surface: the EGL surface of a Surface object.
EglSurfaceBase == 100
lookup_surface(s) == EglSurfaceBase + s

\* ColorSurface::take(): the Managed surface, if any, leaving None behind; an
\* External target holds no Surface and stays External.
take_surface(cs) == IF cs.kind = "Managed" THEN cs.surface ELSE NO_SURFACE
after_take(cs) == IF cs.kind = "Managed" THEN NoColorSurface ELSE cs

\* Device::destroy_surface(context, surface): the surface is released.
destroy_surface(surf, s) == [surf EXCEPT ![s] = "released"]
\* A Surface value that goes out of scope without destroy_surface.
drop_surface(surf, s) == IF s = NO_SURFACE THEN surf ELSE [surf EXCEPT ![s] = "dropped"]

(* ---------------------- Device::destroy_context ------------------------ *)
\* Lines 271-273: the early return of destroy_context.
never_destroyed(ctx) == FALSE
already_destroyed(ctx) == is_destroyed(ctx)

\* Lines 364-389 against 391-410: which NativeContext variant owns the EGL
\* context, so that its destroy deactivates and releases it.
releases_native_always(ctx) == TRUE
releases_native(ctx) == ctx.variant = "Owned"

\* Lines 379-388 and 406-409: NativeContext::destroy of the two variants.
\* Owned: MakeCurrent(NO_CONTEXT) with its result ignored, then
\* DestroyContext, whose failure is an assertion failure. Borrowed: the
\* handle is cleared and nothing else. Both assert that the handle is not
\* destroyed yet.
native_destroy_calls_release_first(ctx) ==
    IF is_destroyed(ctx) THEN <<>>
    ELSE IF ctx.variant = "Owned" THEN <<"DestroyContext", "MakeCurrent">>
    ELSE <<>>
native_destroy_calls(ctx) ==
    IF is_destroyed(ctx) THEN <<>>
    ELSE IF releases_native(ctx) THEN <<"MakeCurrent", "DestroyContext">>
    ELSE <<>>
\* Lines 387 and 408: the handle NativeContext::destroy leaves in the Context.
handle_kept_after_destroy(ctx) == ctx.egl_context
handle_after_destroy(ctx) == NO_CONTEXT
native_destroy_failure(ctx) ==
    IF is_destroyed(ctx) THEN "assert:380"
    ELSE IF releases_native(ctx) /\ ~native[ctx.egl_context].alive THEN "assert_ne:386"
    ELSE "none"

destroy_context(t, c, ok) ==
    /\ pc[t] = "idle"
    /\ contexts[c].state = "live"
    /\ LET ctx == contexts[c]
           s == take_surface(ctx.color_surface)
           calls == (IF s # NO_SURFACE THEN <<"destroy_surface">> ELSE <<>>)
                    \o native_destroy_calls(ctx)
           failed == native_destroy_failure(ctx)
           deactivates == releases_native(ctx) /\ ~is_destroyed(ctx)
       IN IF already_destroyed(ctx)
          THEN /\ lastOp' = Op("destroy_context", t, c, "Ok", "none", 0, <<>>, ctx, NoLocal)
               /\ UNCHANGED <<contexts, native, current, surfaces>>
          ELSE /\ surfaces' = IF s # NO_SURFACE THEN destroy_surface(surfaces, s)
                              ELSE surfaces
               /\ current' = IF deactivates
                              THEN MakeCurrent(t, NO_SURFACE, NO_SURFACE, NO_CONTEXT, ok)
                              ELSE current
               /\ native' = IF deactivates /\ failed = "none"
                             THEN [native EXCEPT ![ctx.egl_context].alive = FALSE]
                             ELSE native
               /\ contexts' = [contexts EXCEPT
                      ![c].color_surface = after_take(ctx.color_surface),
                      ![c].egl_context = IF failed = "none" THEN handle_after_destroy(ctx) ELSE @]
               /\ lastOp' = Op("destroy_context", t, c,
                               IF failed = "none" THEN "Ok" ELSE "panic", failed, 0,
                               calls, ctx, NoLocal)
    /\ UNCHANGED <<mutex, poisoned, previous_context_created, loadCount, pc, local,
                   returned>>

(* -------------------- Device::make_context_current --------------------- *)
\* Lines 290-293: the EGL surface that is bound with the context.
no_color_egl_surface(ctx) == NO_SURFACE
color_egl_surface(ctx) ==
    IF ctx.color_surface.kind = "Managed" THEN lookup_surface(ctx.color_surface.surface)
    ELSE NO_SURFACE
\* Lines 294-297: the binding make_context_current asks EGL for.
activation(ctx) ==
    [ctx |-> ctx.egl_context, draw |-> color_egl_surface(ctx),
     read |-> color_egl_surface(ctx)]

make_context_current(t, c, ok, err) ==
    /\ pc[t] = "idle"
    /\ contexts[c].state = "live"
    /\ LET a == activation(contexts[c])
       IN /\ ok => MakeCurrentValid(a.draw, a.ctx)
          /\ current' = MakeCurrent(t, a.draw, a.read, a.ctx, ok)
          /\ lastOp' = Op("make_context_current", t, c,
                          IF ok THEN "Ok" ELSE "MakeCurrentFailed",
                          IF ok THEN "none" ELSE err, 0, <<"MakeCurrent">>,
                          contexts[c], NoLocal)
    /\ UNCHANGED <<mutex, poisoned, previous_context_created, loadCount, pc, local,
                   contexts, native, surfaces, returned>>

\* Lines 306-318.
make_context_not_current(t, c, ok, err) ==
    /\ pc[t] = "idle"
    /\ contexts[c].state = "live"
    /\ current' = MakeCurrent(t, NO_SURFACE, NO_SURFACE, NO_CONTEXT, ok)
    /\ lastOp' = Op("make_context_not_current", t, c,
                    IF ok THEN "Ok" ELSE "MakeCurrentFailed",
                    IF ok THEN "none" ELSE err, 0, <<"MakeCurrent">>,
                    contexts[c], NoLocal)
    /\ UNCHANGED <<mutex, poisoned, previous_context_created, loadCount, pc, local,
                   contexts, native, surfaces, returned>>

(* ---------------------- Device::get_proc_address ----------------------- *)
\* Lines 320-331: egl::GetProcAddress; the Context argument is not read.
get_proc_address(t, c, found) ==
    /\ pc[t] = "idle"
    /\ contexts[c].state = "live"
    /\ lastOp' = Op("get_proc_address", t, c,
                    IF found THEN "Ok" ELSE "GLFunctionNotFound", "none", 0,
                    <<"GetProcAddress">>, contexts[c], NoLocal)
    /\ UNCHANGED <<mutex, poisoned, previous_context_created, loadCount, pc, local,
                   contexts, native, current, surfaces, returned>>

(* --------------- Device::replace_context_color_surface ----------------- *)
\* Lines 343-345: the rejection of an External target.
never_external(ctx) == FALSE
is_external(ctx) == ctx.color_surface.kind = "External"
\* Lines 347-351: mem::replace of the colour surface; the surface it yields.
swapped_in(ctx, s) == [ctx EXCEPT !.color_surface = ManagedColorSurface(s)]
old_surface(ctx) ==
    IF ctx.color_surface.kind = "Managed" THEN ctx.color_surface.surface ELSE NO_SURFACE

replace_context_color_surface(t, c, s, ok, err) ==
    /\ pc[t] = "idle"
    /\ contexts[c].state = "live"
    /\ surfaces[s] = "caller"
    /\ LET ctx == contexts[c]
           old == old_surface(ctx)
           new == swapped_in(ctx, s)
           a == activation(new)
       IN IF is_external(ctx)
          THEN \* the new surface was moved into the call and dies with it
               /\ surfaces' = drop_surface(surfaces, s)
               /\ lastOp' = Op("replace_context_color_surface", t, c,
                               "ExternalRenderTarget", "none", 0, <<>>, ctx, NoLocal)
               /\ UNCHANGED <<contexts, current, returned>>
          ELSE /\ ok => MakeCurrentValid(a.draw, a.ctx)
               /\ contexts' = [contexts EXCEPT ![c] = new]
               /\ current' = MakeCurrent(t, a.draw, a.read, a.ctx, ok)
               /\ IF ok
                  THEN /\ surfaces' = [x \in SurfIds |->
                              IF x = s THEN "bound"
                              ELSE IF x = old THEN "caller" ELSE surfaces[x]]
                       /\ returned' = [x \in SurfIds |->
                              IF x = s THEN 0
                              ELSE IF x = old THEN returned[x] + 1 ELSE returned[x]]
                       /\ lastOp' = Op("replace_context_color_surface", t, c, "Ok",
                                       "none", old, <<"MakeCurrent">>, ctx, NoLocal)
                  ELSE \* `?` returns the error; old_surface goes out of scope
                       /\ surfaces' = [x \in SurfIds |->
                              IF x = s THEN "bound"
                              ELSE IF x = old THEN "dropped" ELSE surfaces[x]]
                       /\ returned' = [returned EXCEPT ![s] = 0]
                       /\ lastOp' = Op("replace_context_color_surface", t, c,
                                       "MakeCurrentFailed", err, 0, <<"MakeCurrent">>,
                                       ctx, NoLocal)
    /\ UNCHANGED <<mutex, poisoned, previous_context_created, loadCount, pc, local,
                   native>>

(* ------------------------ impl Drop for Context ------------------------ *)
\* Lines 44-48: the condition under which drop panics.
drop_panics_owned_only(ctx, panicking) ==
    ctx.variant = "Owned" /\ ~is_destroyed(ctx) /\ ~panicking
drop_panics(ctx, panicking) == ~is_destroyed(ctx) /\ ~panicking

drop(t, c, panicking) ==
    /\ pc[t] = "idle"
    /\ contexts[c].state = "live"
    /\ contexts' = [contexts EXCEPT ![c] = [NoContext EXCEPT !.state = "dropped"]]
    /\ surfaces' = drop_surface(surfaces, old_surface(contexts[c]))
    /\ lastOp' = Op("drop", t, c,
                    IF drop_panics(contexts[c], panicking) THEN "panic" ELSE "Ok",
                    IF panicking THEN "unwinding" ELSE "none", 0, <<>>, contexts[c],
                    NoLocal)
    /\ UNCHANGED <<mutex, poisoned, previous_context_created, loadCount, pc, local,
                   native, current, returned>>

(* ---------------------------- the system ------------------------------- *)
\* The steps of create_context, by the threads T over given sets of inputs.
CreateContextSteps(T, apis, flagSets, cfgs, errs) ==
    \/ \E t \in T, api \in apis, flags \in flagSets : create_context_begin(t, api, flags)
    \/ \E t \in T, result \in BOOLEAN, config_count \in {0, 1}, err \in errs :
          choose_config(t, result, config_count, err)
    \/ \E t \in T, ok \in BOOLEAN, cfg \in cfgs, err \in errs :
          create_native_context(t, ok, cfg, err)
    \/ \E t \in T, ok \in BOOLEAN, err \in errs : provisional_make_current(t, ok, err)
    \/ \E t \in T : create_context_return(t)

\* The steps of from_current_context, and the host that makes a context current.
AdoptSteps(T, cfgs, builds) ==
    \/ \E t \in T : from_current_context_begin(t)
    \/ \E t \in T, build \in builds : query_current_context(t, build)
    \/ \E t \in T : from_current_context_return(t)
    \/ \E t \in T, cfg \in cfgs : host_make_current(t, cfg)

\* The steps the two creation calls share.
MutexSteps(T) ==
    \/ \E t \in T : lock(t)
    \/ \E t \in T : load_once(t)

\* The calls on a Context that exists, by the threads T.
ContextCalls(T, errs) ==
    \/ \E t \in T, c \in CtxIds, ok \in BOOLEAN : destroy_context(t, c, ok)
    \/ \E t \in T, c \in CtxIds, ok \in BOOLEAN, err \in errs :
          make_context_current(t, c, ok, err)
    \/ \E t \in T, c \in CtxIds, ok \in BOOLEAN, err \in errs :
          make_context_not_current(t, c, ok, err)
    \/ \E t \in T, c \in CtxIds, s \in SurfIds, ok \in BOOLEAN, err \in errs :
          replace_context_color_surface(t, c, s, ok, err)
    \/ \E t \in T, c \in CtxIds, found \in BOOLEAN : get_proc_address(t, c, found)
    \/ \E t \in T, c \in CtxIds, panicking \in BOOLEAN : drop(t, c, panicking)

\* The life of contexts on one thread: every call, with one desktop-GL request
\* of all three buffers and one native error code. The caller holds one
\* context at a time: it creates the next one after dropping the one it has
\* (SpecActivate has several contexts alive together).
Held == {c \in CtxIds : contexts[c].state = "live"}
Next ==
    \/ /\ Held = {}
       /\ \/ CreateContextSteps({1}, {"GL"}, {AttributeFlags}, {FullConfig}, {"BAD_MATCH"})
          \/ AdoptSteps({1}, {FullConfig}, {"debug"})
          \/ MutexSteps({1})
    \/ ContextCalls({1}, {"BAD_MATCH"})

Spec == Init /\ [][Next]_vars

\* Activation from every thread: thread 1 creates the contexts and binds
\* surface 1, every thread activates and deactivates.
NextActivate ==
    \/ CreateContextSteps({1}, {"GL"}, {AttributeFlags}, {FullConfig}, {"BAD_MATCH"})
    \/ MutexSteps({1})
    \/ \E t \in Threads, c \in CtxIds, ok \in BOOLEAN :
          make_context_current(t, c, ok, "BAD_MATCH")
    \/ \E t \in Threads, c \in CtxIds, ok \in BOOLEAN :
          make_context_not_current(t, c, ok, "BAD_MATCH")
    \/ \E c \in CtxIds, ok \in BOOLEAN :
          replace_context_color_surface(1, c, 1, ok, "BAD_MATCH")

SpecActivate == Init /\ [][NextActivate]_vars

\* Concurrent creation: the two creation calls from every thread, over both
\* flavors, both builds and every native error code.
NextCreate ==
    \/ CreateContextSteps(Threads, GLApis, {AttributeFlags}, {FullConfig}, NativeErrors)
    \/ AdoptSteps(Threads, {FullConfig}, Builds)
    \/ MutexSteps(Threads)

SpecCreate == Init /\ [][NextCreate]_vars

\* Attribute negotiation: create_context on one thread over every combination
\* of attribute flags, on a display whose configurations have all three buffers.
NextFlags ==
    \/ CreateContextSteps({1}, GLApis, SUBSET AttributeFlags, {FullConfig}, {"BAD_MATCH"})
    \/ MutexSteps({1})

SpecFlags == Init /\ [][NextFlags]_vars

(* ------------------------------ claims --------------------------------- *)
CreationOps == {"create_context", "from_current_context"}
WasManaged(ctx) == ctx.color_surface.kind = "Managed"
WasExternal(ctx) == ctx.color_surface.kind = "External"
WasDestroyed(ctx) == ctx.egl_context = NO_CONTEXT

\* C1: destroy_context on a context that an earlier destroy_context has
\* destroyed returns Ok, issues no surface release, no deactivation and no
\* native release, and leaves the context exactly as it was.
C1_SecondDestroyIsNoOp ==
    (lastOp.op = "destroy_context" /\ WasDestroyed(lastOp.pre)) =>
        /\ lastOp.res = "Ok"
        /\ lastOp.calls = <<>>
        /\ contexts[lastOp.c] = lastOp.pre
C1_Witness ==
    /\ lastOp.op = "destroy_context"
    /\ WasDestroyed(lastOp.pre)
    /\ lastOp.pre.variant = "Owned"
    /\ lastOp.res = "Ok"

\* C2 as stated: a drop outside of unwinding panics exactly when the context
\* is Owned and not destroyed; in particular a Borrowed context never panics.
C2_DropPanicsOnlyOwned ==
    (lastOp.op = "drop" /\ lastOp.err # "unwinding") =>
        (lastOp.res = "panic" <=>
            (lastOp.pre.variant = "Owned" /\ ~WasDestroyed(lastOp.pre)))
\* C2 amended: a drop outside of unwinding panics exactly when the context has
\* not been destroyed, whether it is Owned or Borrowed; a drop of a destroyed
\* context, and a drop during unwinding, never panics.
C2_DropPanicsIffNotDestroyed ==
    lastOp.op = "drop" =>
        (lastOp.res = "panic" <=>
            (~WasDestroyed(lastOp.pre) /\ lastOp.err # "unwinding"))
C2_Witness ==
    /\ lastOp.op = "drop"
    /\ lastOp.err # "unwinding"
    /\ lastOp.pre.variant = "Borrowed"
    /\ ~WasDestroyed(lastOp.pre)
    /\ lastOp.res = "panic"

\* C3: under every interleaving of creations the function pointers are loaded
\* at most once; a creation performs the load exactly when it is the first
\* one to succeed (the one that returns context 1), and once any creation has
\* succeeded the load has been performed exactly once.
C3_LoadExactlyOnce ==
    /\ loadCount <= 1
    /\ previous_context_created <=> (loadCount = 1)
    /\ UsedContexts # {} => loadCount = 1
    /\ lastOp.op \in CreationOps =>
          (lastOp.loaded <=> (lastOp.res = "Ok" /\ lastOp.c = 1))
C3_Witness ==
    /\ lastOp.op \in CreationOps
    /\ lastOp.res = "Ok"
    /\ lastOp.c = 2
    /\ ~lastOp.loaded
    /\ loadCount = 1
    /\ contexts[1].variant # contexts[2].variant

\* C4: replace_context_color_surface on a context whose colour surface is
\* External returns ExternalRenderTarget whatever surface is passed, issues no
\* activation, and leaves the context (its colour surface External) unchanged.
C4_ExternalTargetRejected ==
    (lastOp.op = "replace_context_color_surface" /\ WasExternal(lastOp.pre)) =>
        /\ lastOp.res = "ExternalRenderTarget"
        /\ lastOp.calls = <<>>
        /\ contexts[lastOp.c] = lastOp.pre
        /\ contexts[lastOp.c].color_surface.kind = "External"
C4_Witness ==
    /\ lastOp.op = "replace_context_color_surface"
    /\ WasExternal(lastOp.pre)
    /\ lastOp.res = "ExternalRenderTarget"

\* C5 as stated: on a context whose colour surface is not External, the
\* surface that was bound before a replace_context_color_surface call is what
\* the call returns (no surface when none was bound), and no surface is
\* returned twice without having been bound again in between.
C5_ReturnsPreviousSurfaceOnce ==
    /\ \A s \in SurfIds : returned[s] <= 1
    /\ (lastOp.op = "replace_context_color_surface" /\ ~WasExternal(lastOp.pre)) =>
          lastOp.ret = (IF WasManaged(lastOp.pre) THEN lastOp.pre.color_surface.surface
                        ELSE NO_SURFACE)

\* C6: create_context with the GLES flavor returns the unsupported-flavor
\* error in its first step: it does not take the mutex, makes no native call,
\* performs no load, and leaves the load flag and every other piece of state
\* as they were, also while another thread holds the mutex.
C6_UnsupportedFlavorRejectedFirst ==
    [][\A t \in Threads, flags \in SUBSET AttributeFlags :
          create_context_begin(t, "GLES", flags) =>
              /\ lastOp'.op = "create_context"
              /\ lastOp'.res = "UnsupportedGLType"
              /\ lastOp'.calls = <<>>
              /\ ~lastOp'.loaded
              /\ UNCHANGED <<mutex, poisoned, previous_context_created, loadCount, pc,
                             contexts, native, current>>]_vars
C6_Witness ==
    /\ lastOp.op = "create_context"
    /\ lastOp.res = "UnsupportedGLType"
    /\ mutex # 0
    /\ mutex # lastOp.t
    /\ ~previous_context_created

\* C7 as stated: when the provisional activation fails, create_context
\* returns MakeCurrentFailed and the native context it created is no longer
\* alive.
C7_FailedCreationReleasesNative ==
    (lastOp.op = "create_context" /\ lastOp.res = "MakeCurrentFailed") =>
        /\ lastOp.egl_context # NO_CONTEXT
        /\ ~native[lastOp.egl_context].alive

C9_ActivationIsPerThread ==
    [][/\ \A t \in Threads, c \in CtxIds :
            make_context_current(t, c, TRUE, "BAD_MATCH") =>
                LET target == IF WasManaged(contexts[c])
                              THEN lookup_surface(contexts[c].color_surface.surface)
                              ELSE NO_SURFACE
                IN current'[t] = [ctx |-> contexts[c].egl_context, draw |-> target,
                                  read |-> target]
       /\ \A u \in Threads :
            current'[u] # current[u] => (pc[u] # "idle" \/ lastOp'.t = u)]_vars
C9_Witness ==
    /\ lastOp.op = "make_context_current"
    /\ lastOp.res = "Ok"
    /\ lastOp.t = 2
    /\ WasManaged(lastOp.pre)
    /\ current[2].ctx = lastOp.pre.egl_context
    /\ current[2].draw = lookup_surface(lastOp.pre.color_surface.surface)
    /\ current[1].ctx # NO_CONTEXT
    /\ current[1].ctx # current[2].ctx

C11_DestroyOrder ==
    (lastOp.op = "destroy_context" /\ ~WasDestroyed(lastOp.pre)) =>
        /\ lastOp.calls =
              (IF WasManaged(lastOp.pre) THEN <<"destroy_surface">> ELSE <<>>)
              \o (IF lastOp.pre.variant = "Owned"
                  THEN <<"MakeCurrent", "DestroyContext">> ELSE <<>>)
        /\ \A i, j \in DOMAIN lastOp.calls :
              (lastOp.calls[i] = "DestroyContext" /\ i # j) => j < i
        /\ WasManaged(lastOp.pre) =>
              surfaces[lastOp.pre.color_surface.surface] = "released"
C11_Witness ==
    /\ lastOp.op = "destroy_context"
    /\ lastOp.pre.variant = "Owned"
    /\ WasManaged(lastOp.pre)
    /\ lastOp.res = "Ok"
    /\ lastOp.calls = <<"destroy_surface", "MakeCurrent", "DestroyContext">>
    /\ ~native[lastOp.pre.egl_context].alive

\* C12: destroy_context on a Borrowed context issues no call at all (no
\* surface release, no deactivation, no native release) and changes neither
\* the native contexts, nor what is current on any thread, nor any surface;
\* the native context it was adopted from stays alive, and the handle alone
\* is marked destroyed.
C12_BorrowedDestroyOnlyMarks ==
    [][\A t \in Threads, c \in CtxIds, ok \in BOOLEAN :
          (destroy_context(t, c, ok) /\ contexts[c].variant = "Borrowed") =>
              /\ lastOp'.calls = <<>>
              /\ lastOp'.res = "Ok"
              /\ UNCHANGED <<native, current, surfaces>>
              /\ is_destroyed(contexts'[c])
              /\ ~is_destroyed(contexts[c]) => native'[contexts[c].egl_context].alive]_vars
C12_Witness ==
    /\ lastOp.op = "destroy_context"
    /\ lastOp.pre.variant = "Borrowed"
    /\ ~WasDestroyed(lastOp.pre)
    /\ lastOp.res = "Ok"
    /\ WasDestroyed(contexts[lastOp.c])
    /\ native[lastOp.pre.egl_context].alive
    /\ current[lastOp.t].ctx = lastOp.pre.egl_context

\* C13: a context that is destroyed stays destroyed for as long as it exists,
\* whatever is called on it; the handle of a context changes in one way only,
\* from a native context to NO_CONTEXT, and the step that does it is a
\* destroy_context call on that context, which leaves it destroyed whenever
\* it returns Ok.
C13_DestroyedIsTerminal ==
    [][\A c \in CtxIds :
          (contexts[c].state = "live" /\ contexts'[c].state = "live") =>
              /\ is_destroyed(contexts[c]) => is_destroyed(contexts'[c])
              /\ contexts'[c].egl_context # contexts[c].egl_context =>
                    /\ ~is_destroyed(contexts[c])
                    /\ is_destroyed(contexts'[c])
                    /\ lastOp'.op = "destroy_context"
                    /\ lastOp'.c = c
              /\ (lastOp'.op = "destroy_context" /\ lastOp'.c = c /\ lastOp'.res = "Ok"
                    /\ lastOp' # lastOp) => is_destroyed(contexts'[c])]_vars
C13_Witness ==
    /\ lastOp.op = "get_proc_address"
    /\ lastOp.res = "Ok"
    /\ WasDestroyed(lastOp.pre)
    /\ lastOp.pre.variant = "Owned"
    /\ contexts[lastOp.c].state = "live"
    /\ WasDestroyed(contexts[lastOp.c])
    /\ WasManaged(contexts[lastOp.c])

\* C14: at any moment at most one thread is between taking the creation mutex
\* and returning from create_context or from_current_context (selecting a
\* configuration, creating the native context, activating it, querying the
\* current context, loading the function pointers); that thread is the one
\* that holds the mutex, and every other creating thread waits at the lock.
InsideMutex == {t \in Threads : pc[t] \notin {"idle", "cc_lock", "fcc_lock"}}
C14_CreationIsSerialized ==
    /\ Cardinality(InsideMutex) <= 1
    /\ \A t \in Threads : t \in InsideMutex <=> mutex = t
    /\ \A t \in Threads : t \notin InsideMutex => local[t].calls = <<>>
C14_Witness ==
    /\ pc[1] = "cc_make_current"
    /\ local[1].calls = <<"ChooseConfig", "CreateContext">>
    /\ pc[2] = "fcc_lock"
    /\ mutex = 1
    /\ current[2].ctx # NO_CONTEXT

\* C15: create_context stops at its first failing step. A failed
\* egl::ChooseConfig returns PixelFormatSelectionFailed with the code EGL
\* reports, a selection of no configuration returns NoPixelFormatFound, and a
\* failed egl::CreateContext returns ContextCreationFailed with the code EGL
\* reports; the failing call is the last native call made, nothing is loaded,
\* no native context and no Context comes into being, and the call is over.
StoppedWith(t, res, err, calls) ==
    /\ lastOp'.op = "create_context"
    /\ lastOp'.t = t
    /\ lastOp'.res = res
    /\ lastOp'.err = err
    /\ lastOp'.calls = calls
    /\ lastOp'.c = 0
    /\ ~lastOp'.loaded
    /\ pc'[t] = "idle"
    /\ UNCHANGED <<contexts, native, current, loadCount, previous_context_created>>
C15_FirstFailureIsReported ==
    [][\A t \in Threads, err \in NativeErrors :
          /\ \A config_count \in {0, 1} :
                choose_config(t, FALSE, config_count, err) =>
                    StoppedWith(t, "PixelFormatSelectionFailed", err, <<"ChooseConfig">>)
          /\ choose_config(t, TRUE, 0, err) =>
                StoppedWith(t, "NoPixelFormatFound", "none", <<"ChooseConfig">>)
          /\ \A cfg \in Configs :
                create_native_context(t, FALSE, cfg, err) =>
                    StoppedWith(t, "ContextCreationFailed", err,
                                <<"ChooseConfig", "CreateContext">>)]_vars
C15_Witness ==
    /\ lastOp.op = "create_context"
    /\ lastOp.res = "ContextCreationFailed"
    /\ lastOp.err = "BAD_ALLOC"
    /\ lastOp.calls = <<"ChooseConfig", "CreateContext">>
    /\ lastOp.c = 0
    /\ loadCount = 0
    /\ \A h \in Handles : native[h].origin # "create_context"
    /\ mutex # lastOp.t

\* C16: a Context comes into being through a creation call only:
\* create_context returns it Owned with colour surface None,
\* from_current_context returns it Borrowed with colour surface External.
\* No later step changes the variant, makes an External colour surface None
\* or Managed, or makes another colour surface External; so at every moment
\* a context is External exactly when from_current_context returned it.
C16_OriginFixesVariantAndKind ==
    [][\A c \in CtxIds :
          /\ (contexts[c].state = "none" /\ contexts'[c].state = "live") =>
                /\ lastOp'.op \in CreationOps
                /\ lastOp'.res = "Ok"
                /\ lastOp'.c = c
                /\ lastOp'.op = "create_context" =>
                      /\ contexts'[c].variant = "Owned"
                      /\ contexts'[c].color_surface.kind = "None"
                /\ lastOp'.op = "from_current_context" =>
                      /\ contexts'[c].variant = "Borrowed"
                      /\ contexts'[c].color_surface.kind = "External"
          /\ (contexts[c].state = "live" /\ contexts'[c].state = "live") =>
                /\ contexts'[c].variant = contexts[c].variant
                /\ WasExternal(contexts'[c]) <=> WasExternal(contexts[c])
          /\ contexts'[c].state = "live" =>
                (WasExternal(contexts'[c]) <=> contexts'[c].variant = "Borrowed")]_vars
C16_Witness ==
    /\ lastOp.op = "destroy_context"
    /\ lastOp.pre.variant = "Borrowed"
    /\ WasExternal(lastOp.pre)
    /\ WasExternal(contexts[lastOp.c])
    /\ WasDestroyed(contexts[lastOp.c])
    /\ \E s \in SurfIds : surfaces[s] = "dropped"
    /\ \E s \in SurfIds : surfaces[s] = "released"

\* C17: when replace_context_color_surface returns Ok for a context that is
\* not External, the calling thread's current context is that context, and
\* the EGL surface of the surface passed in is both its draw and its read
\* target; the surface passed in is the one bound to the context.
C17_ReplaceActivatesNewSurface ==
    [][\A t \in Threads, c \in CtxIds, s \in SurfIds, err \in NativeErrors :
          (replace_context_color_surface(t, c, s, TRUE, err)
              /\ ~WasExternal(contexts[c])) =>
              /\ lastOp'.res = "Ok"
              /\ contexts'[c].color_surface = ManagedColorSurface(s)
              /\ contexts[c].egl_context # NO_CONTEXT
              /\ current'[t] = [ctx |-> contexts[c].egl_context,
                                draw |-> lookup_surface(s),
                                read |-> lookup_surface(s)]]_vars
C17_Witness ==
    /\ lastOp.op = "replace_context_color_surface"
    /\ lastOp.res = "Ok"
    /\ lastOp.ret = 1
    /\ contexts[lastOp.c].color_surface = ManagedColorSurface(2)
    /\ current[lastOp.t].ctx = contexts[lastOp.c].egl_context
    /\ current[lastOp.t].draw = lookup_surface(2)
    /\ current[lastOp.t].read = lookup_surface(2)

\* C18 as stated: no Managed surface is lost. A surface is bound exactly when
\* a context holds it, and after a replace_context_color_surface or
\* destroy_context call on a context that is not External, also a replace
\* whose re-activation failed, the surface the context held before the call
\* is bound to the context, back with the caller, or released through
\* destroy_surface.
C18_NoManagedSurfaceLost ==
    /\ \A s \in SurfIds :
          surfaces[s] = "bound" <=>
              \E c \in CtxIds : /\ contexts[c].state = "live"
                                /\ contexts[c].color_surface = ManagedColorSurface(s)
    /\ (lastOp.op \in {"replace_context_color_surface", "destroy_context"}
          /\ WasManaged(lastOp.pre)) =>
          surfaces[lastOp.pre.color_surface.surface] \in {"bound", "caller", "released"}

\* C19 as stated: in every reachable state a context that is destroyed has no
\* Managed colour surface bound.
C19_DestroyedHasNoManagedSurface ==
    \A c \in CtxIds :
        (contexts[c].state = "live" /\ is_destroyed(contexts[c])) =>
            ~WasManaged(contexts[c])

\* C20: a create_context call that returns PixelFormatSelectionFailed,
\* NoPixelFormatFound, ContextCreationFailed or MakeCurrentFailed held the
\* creation mutex and returns with it free and not poisoned, having loaded
\* nothing and with the load flag as it was; and a create_context call that
\* succeeds returns with the flag set and the load done once, by this call
\* when no earlier creation had done it.
CreateContextFails(t) ==
    \E err \in NativeErrors :
        \/ \E config_count \in {0, 1} : choose_config(t, FALSE, config_count, err)
        \/ choose_config(t, TRUE, 0, err)
        \/ \E cfg \in Configs : create_native_context(t, FALSE, cfg, err)
        \/ provisional_make_current(t, FALSE, err)
C20_FailedCreationBlocksNothing ==
    [][\A t \in Threads :
          /\ CreateContextFails(t) =>
                /\ mutex = t
                /\ mutex' = 0
                /\ ~poisoned'
                /\ pc'[t] = "idle"
                /\ ~lastOp'.loaded
                /\ previous_context_created' = previous_context_created
                /\ loadCount' = loadCount
          /\ create_context_return(t) =>
                /\ mutex' = 0
                /\ previous_context_created'
                /\ loadCount' = 1
                /\ lastOp'.loaded <=> \A c \in CtxIds : contexts[c].state = "none"]_vars
C20_Witness ==
    /\ lastOp.op = "create_context"
    /\ lastOp.res = "Ok"
    /\ lastOp.t = 2
    /\ lastOp.c = 1
    /\ lastOp.loaded
    /\ loadCount = 1
    /\ mutex = 0
    /\ \E h \in Handles : /\ h # lastOp.egl_context
                           /\ native[h].origin = "create_context"
                           /\ current[1].ctx # h

====
